---- MODULE Spec2Model ----
(***************************************************************************)
(* A model of system_auditor.py: the command wrapper run_command, the four *)
(* collectors, the socket-listing parser inside get_listening_ports and    *)
(* the report assembly and delivery of main.                               *)
(*                                                                         *)
(* Text is modelled by TLA+ strings, on which TLC evaluates Len, \o and    *)
(* SubSeq character by character.  The module is ASCII, so the emoji that  *)
(* prefix the program's messages are written as one-character stand-ins.   *)
(***************************************************************************)
EXTENDS Integers, Sequences, FiniteSets, TLC

VARIABLES
    pc,                 \* position of main
    host,               \* what each external command does on this host
    calls,              \* the run_command calls made so far, in order
    children,           \* commands whose child process is still running
    console,            \* lines printed to standard output
    sys_stdout,         \* standard output: open, closed, or ascii-only
    report_parts,       \* main's list of collector results
    now,                \* wall clock, seconds since midnight
    timestamp,          \* main's header timestamp
    full_report,        \* main's report text
    filename,           \* main's report file name
    files,              \* the working directory: file name -> content
    attempts,           \* open() calls made by the current run
    reads,              \* the clock values the current run has read, in order
    run,                \* number of the current invocation of main
    history             \* one record per delivery step: what the run computed

vars == <<pc, host, calls, children, console, sys_stdout, report_parts, now,
          timestamp, full_report, filename, files, attempts, reads, run,
          history>>

-----------------------------------------------------------------------------
(* Bounds of the model.                                                    *)

\* Seconds the clock may advance between two consecutive reads.
MaxAdvance == 1
\* Clock value at the start of the first run: 11:43:58.
ClockStart == 42238
\* Clock value at the start of a run shortly before midnight: 23:59:58.
LateClockStart == 86398
\* Record lines after the header in a generated socket listing.
MaxRecordLines == 2
\* Fields in a generated socket-listing record line.
MaxFields == 7
\* The calendar day on which the clock is at 0.
Today == [year |-> 2026, month |-> 10, day |-> 29]
\* Invocations of main in the two-run specification.
RunIds == {1, 2}

-----------------------------------------------------------------------------
(* Python values.                                                          *)

\* str | None
None == [some |-> FALSE, val |-> ""]
Some(s) == [some |-> TRUE, val |-> s]

\* Stand-ins for the non-ASCII glyphs of the program's messages.
GlyphCross == "x"
GlyphInfo == "i"
GlyphCheck == "v"
GlyphRocket == ">"

\* The characters str.strip() and str.split() treat as whitespace: tab, line
\* feed, vertical tab, form feed, carriage return, the separators \x1c to
\* \x1f, space, next line (\x85) and no-break space (\xa0).  The five without
\* an escape stand in their literals as they are.  Python counts the spaces
\* from U+1680 on as well (U+1680, U+2000 to U+200A, U+2028, U+2029, U+202F,
\* U+205F, U+3000); a string of this module cannot hold a character above
\* U+00FF, so no modelled text contains them.
Whitespace ==
    {"\t", "\n", "", "\f", "\r", "", "", "", "", " ",
     "", " "}

CharAt(s, i) == SubSeq(s, i, i)

\* s[i:] with a 1-based index
From(s, i) == IF i > Len(s) THEN "" ELSE SubSeq(s, i, Len(s))

\* s[:i-1] with a 1-based index
Before(s, i) == IF i <= 1 THEN "" ELSE SubSeq(s, 1, i - 1)

\* The least and the greatest of a non-empty set of numbers.
Least(S) == CHOOSE k \in S : \A j \in S : k <= j
Greatest(S) == CHOOSE k \in S : \A j \in S : k >= j

\* The first position of s from i on whose character is in C (inside) or is
\* not in C (not inside), Len(s) + 1 if none; s is scanned 16 characters at a
\* time.
RECURSIVE FirstAt(_, _, _, _)
FirstAt(s, C, inside, i) ==
    IF i > Len(s) THEN Len(s) + 1
    ELSE LET to == IF i + 15 < Len(s) THEN i + 15 ELSE Len(s)
             hits == {k \in i..to : (CharAt(s, k) \in C) = inside}
         IN  IF hits # {} THEN Least(hits) ELSE FirstAt(s, C, inside, to + 1)

\* The last position of s up to i whose character is not in C, 0 if none.
RECURSIVE LastOutside(_, _, _)
LastOutside(s, C, i) ==
    IF i < 1 THEN 0
    ELSE LET from == IF i - 15 > 1 THEN i - 15 ELSE 1
             hits == {k \in from..i : CharAt(s, k) \notin C}
         IN  IF hits # {} THEN Greatest(hits) ELSE LastOutside(s, C, from - 1)

\* str.lstrip()
LStrip(s) == From(s, FirstAt(s, Whitespace, FALSE, 1))

\* str.rstrip()
RStrip(s) == Before(s, LastOutside(s, Whitespace, Len(s)) + 1)

\* str.strip()
Strip(s) == RStrip(LStrip(s))

\* Index of the first occurrence of character c in s from position i on,
\* Len(s) + 1 if none.
FindFrom(s, c, i) == FirstAt(s, {c}, TRUE, i)

\* c in s
Contains(s, c) == FindFrom(s, c, 1) <= Len(s)

\* str.split(c) for a one-character separator: never empty, keeps empty pieces.
RECURSIVE Split(_, _)
Split(s, c) ==
    LET i == FindFrom(s, c, 1)
    IN  IF i > Len(s) THEN <<s>>
        ELSE <<Before(s, i)>> \o Split(From(s, i + 1), c)

\* Index of the first whitespace character of s from position i on,
\* Len(s) + 1 if none.
FindSpace(s, i) == FirstAt(s, Whitespace, TRUE, i)

\* str.split() without arguments: pieces between runs of whitespace, none empty.
RECURSIVE SplitWhitespace(_)
SplitWhitespace(s) ==
    LET t == LStrip(s)
    IN  IF t = "" THEN <<>>
        ELSE LET i == FindSpace(t, 1)
             IN  <<Before(t, i)>> \o SplitWhitespace(From(t, i))

\* sep.join(parts)
RECURSIVE Join(_, _)
Join(parts, sep) ==
    IF parts = <<>> THEN ""
    ELSE IF Len(parts) = 1 THEN parts[1]
    ELSE parts[1] \o sep \o Join(Tail(parts), sep)

\* '-' * n
RECURSIVE Repeat(_, _)
Repeat(c, n) == IF n = 0 THEN "" ELSE c \o Repeat(c, n - 1)

Digit(d) == CharAt("0123456789", d + 1)

\* %02d
TwoDigits(n) == Digit((n \div 10) % 10) \o Digit(n % 10)

\* %Y
FourDigits(n) == TwoDigits(n \div 100) \o TwoDigits(n % 100)

IsLeapYear(y) == y % 4 = 0 /\ (y % 100 # 0 \/ y % 400 = 0)

DaysInMonth(y, m) ==
    IF m = 2 THEN (IF IsLeapYear(y) THEN 29 ELSE 28)
    ELSE IF m \in {4, 6, 9, 11} THEN 30
    ELSE 31

\* The calendar day n days after date.
RECURSIVE DateAfter(_, _)
DateAfter(date, n) ==
    LET left == DaysInMonth(date.year, date.month) - date.day
    IN  IF n <= left THEN [date EXCEPT !.day = @ + n]
        ELSE IF date.month < 12
        THEN DateAfter([date EXCEPT !.month = @ + 1, !.day = 1], n - left - 1)
        ELSE DateAfter([year |-> date.year + 1, month |-> 1, day |-> 1],
                       n - left - 1)

\* datetime.now().strftime with the pattern %Y<d>%m<d>%d<s>%H<t>%M<t>%S, where
\* d, s and t are the separators of the pattern and the clock stands t seconds
\* after the midnight that begins Today.
Strftime(t, d, s, c) ==
    LET date == DateAfter(Today, t \div 86400)
    IN  FourDigits(date.year) \o d \o TwoDigits(date.month) \o d
            \o TwoDigits(date.day) \o s
            \o TwoDigits((t \div 3600) % 24) \o c \o TwoDigits((t \div 60) % 60)
            \o c \o TwoDigits(t % 60)

-----------------------------------------------------------------------------
(* The host: what launching and running each external command produces.    *)

Commands == {"who", "last", "ss", "curl"}

\* kind names the way subprocess.run ends: "Completed" (exit status 0), or the
\* exception it raises.
Outcome(kind, stdout, stderr) == [kind |-> kind, stdout |-> stdout, stderr |-> stderr]

Completed(stdout) == Outcome("Completed", stdout, "")

FailureOutcomes ==
    {Outcome(k, "", "") :
        k \in {"FileNotFoundError", "PermissionError", "CalledProcessError",
               "TimeoutExpired", "UnicodeDecodeError"}}
    \cup {Outcome("CalledProcessError", "", "permission denied\n")}

\* The three failures run_command handles.
HandledKinds == {"FileNotFoundError", "CalledProcessError", "TimeoutExpired"}

HeaderLine == "State Recv-Q Send-Q Local Address:Port Peer Address:Port Process"
SshdLine == "LISTEN 0 128 0.0.0.0:22 0.0.0.0:* users:((\"sshd\",pid=1,fd=3))"
UdpLine == "udp UNCONN 0 0 127.0.0.53%lo:53 0.0.0.0:*"

\* Two users, as a terminal-style writer ends its lines.
WhoListing ==
    "alice pts/0 2026-10-29 11:40 (10.0.0.5)\r\nbob tty1 2026-10-29 09:02\r\n"

WhoOutputs == {"", " \n", WhoListing}
LastOutputs == {"", "alice pts/0 10.0.0.5 Thu Oct 29 11:40 still logged in\n"}
SsOutputs ==
    {"", HeaderLine \o "\n", HeaderLine \o "\nLISTEN 0 128\n",
     "Netid " \o HeaderLine \o "\n" \o UdpLine \o "\ntcp " \o SshdLine \o "\n"}
CurlOutputs == {"", "ami-id\nhostname\n"}

OutcomesOf(outputs) == FailureOutcomes \cup {Completed(t) : t \in outputs}

Hosts ==
    {[c \in Commands |->
        CASE c = "who" -> w [] c = "last" -> l [] c = "ss" -> s [] OTHER -> m] :
        w \in OutcomesOf(WhoOutputs), l \in OutcomesOf(LastOutputs),
        s \in OutcomesOf(SsOutputs), m \in OutcomesOf(CurlOutputs)}

-----------------------------------------------------------------------------
(* run_command                                                             *)

\* What a text-mode pipe hands to the program for the bytes the child wrote:
\* text=True reads with universal newlines, so \r\n and a lone \r arrive as \n.
RECURSIVE UniversalNewlines(_)
UniversalNewlines(s) ==
    LET returns == {i \in 1..Len(s) : CharAt(s, i) = "\r"}
    IN  IF returns = {} THEN s
        ELSE LET i == CHOOSE k \in returns : \A j \in returns : k <= j
                 next == IF i < Len(s) /\ CharAt(s, i + 1) = "\n" THEN i + 2
                         ELSE i + 1
             IN  Before(s, i) \o "\n" \o UniversalNewlines(From(s, next))

\* subprocess.run(command, capture_output=True, text=True, check=True,
\* timeout=10): exc is the exception raised ("none" when it returns), child is
\* the state of the child process when the call ends.  No child exists when
\* the launch fails; a child that ran to its end has been waited for; on a
\* timeout, and on any other exception while communicating, subprocess.run
\* kills the child and waits for it before raising.
SubprocessRun(command, o) ==
    CASE o.kind \in {"FileNotFoundError", "PermissionError"} ->
            [exc |-> o.kind, stdout |-> "", stderr |-> "", child |-> "none"]
      [] o.kind = "TimeoutExpired" ->
            [exc |-> o.kind, stdout |-> "", stderr |-> "", child |-> "reaped"]
      [] o.kind = "UnicodeDecodeError" ->
            [exc |-> o.kind, stdout |-> "", stderr |-> "", child |-> "reaped"]
      [] o.kind = "CalledProcessError" ->
            [exc |-> o.kind, stdout |-> UniversalNewlines(o.stdout),
             stderr |-> UniversalNewlines(o.stderr), child |-> "reaped"]
      [] OTHER ->
            [exc |-> "none", stdout |-> UniversalNewlines(o.stdout),
             stderr |-> UniversalNewlines(o.stderr), child |-> "reaped"]

\* Standard output is open, closed (its reader has gone away: an unbuffered
\* write fails), or ascii (its encoding cannot carry the glyphs).
StdoutStates == {"open", "closed", "ascii"}

\* The exception print() raises for a line, "none" when the line is printed;
\* glyph tells whether the line holds a glyph.
PrintRaises(out, glyph) ==
    CASE out = "closed" -> "BrokenPipeError"
      [] out = "ascii" /\ glyph -> "UnicodeEncodeError"
      [] OTHER -> "none"

\* What the three except branches print when show_error is set.
DiagnosticLines(command, r) ==
    CASE r.exc = "FileNotFoundError" ->
            <<GlyphCross \o " Error: Command not found: '" \o command[1] \o "'">>
      [] r.exc = "CalledProcessError" ->
            <<GlyphCross \o " Error executing command: '"
                \o Join(command, " ") \o "'">>
            \o (IF r.stderr # "" THEN <<"   Stderr: " \o Strip(r.stderr)>> ELSE <<>>)
      [] OTHER ->
            <<GlyphCross \o " Error: Command timed out: '"
                \o Join(command, " ") \o "'">>

CallResult(ret, raised, printed, child) ==
    [ret |-> ret, raised |-> raised, printed |-> printed, child |-> child]

\* The states standard output may be in at the first and at the second print
\* of a call that starts with standard output in state out: its reader may
\* go away while the child runs and between the two prints.
StdoutCourses(out) ==
    {<<first, second>> : first \in {out, "closed"}, second \in {out, "closed"}}
        \ {<<"closed", "open">>}

\* The number of the first of lines whose print raises, Len(lines) + 1 when
\* all are printed.  Only the first line of a diagnostic holds a glyph.
FirstFailure(lines, outs) ==
    LET failing == {i \in 1..Len(lines) : PrintRaises(outs[i], i = 1) # "none"}
    IN  IF failing = {} THEN Len(lines) + 1
        ELSE CHOOSE i \in failing : \A j \in failing : i <= j

\* The result of one call during which standard output is in state outs[i]
\* at the i-th print: the value returned (meaningful when raised is "none"),
\* the exception that escapes the call ("none" when it returns), the lines
\* printed, and the state of the child.  When a line of the diagnostic cannot
\* be printed, the exception of print() leaves the except branch and the
\* call, after the lines before it have been printed.
RunCommand(command, show_error, o, outs) ==
    LET r == SubprocessRun(command, o)
        lines == IF show_error THEN DiagnosticLines(command, r) ELSE <<>>
        f == FirstFailure(lines, outs)
    IN  CASE r.exc = "none" -> CallResult(Some(Strip(r.stdout)), "none", <<>>, r.child)
          [] r.exc \in HandledKinds ->
                CallResult(None,
                           IF f > Len(lines) THEN "none"
                           ELSE PrintRaises(outs[f], f = 1),
                           SubSeq(lines, 1, f - 1), r.child)
          [] OTHER -> CallResult(None, r.exc, <<>>, r.child)

-----------------------------------------------------------------------------
(* The collectors' formatting of a command result.                         *)

ActiveUsersSection(output) ==
    LET header == "--- Active Users ---"
    IN  IF ~output.some THEN None
        ELSE IF output.val = ""
             THEN Some(header \o "\nNo active users found.\n")
             ELSE Some(header \o "\n" \o output.val \o "\n")

LastLoginsSection(output) ==
    LET header == "--- Last 10 Logins ---"
    IN  IF ~output.some THEN None
        ELSE IF output.val = ""
             THEN Some(header \o "\nNo login history found.\n")
             ELSE Some(header \o "\n" \o output.val \o "\n")

\* The record taken from the fourth and sixth fields.
PortRecord_OneBased(parts) ==
    LET process_info == IF Len(parts) > 5 THEN parts[6] ELSE "N/A"
    IN  [localAddressPort |-> parts[4],
         processName |->
            IF Contains(process_info, "\"")
            THEN Split(process_info, "\"")[2]
            ELSE "N/A"]

\* One record line of the socket listing, already split into its fields.
PortRecord(parts) ==
    LET process_info == IF Len(parts) > 6 THEN parts[7] ELSE "N/A"
    IN  [localAddressPort |-> parts[5],
         processName |->
            IF Contains(process_info, "\"")
            THEN Split(process_info, "\"")[2]
            ELSE "N/A"]

\* The loop that keeps a line only when it has more than 5 fields.
RECURSIVE ParsePortLines_MinSix(_)
ParsePortLines_MinSix(lines) ==
    IF lines = <<>> THEN <<>>
    ELSE LET parts == SplitWhitespace(Head(lines))
         IN  (IF Len(parts) > 5 THEN <<PortRecord(parts)>> ELSE <<>>)
                \o ParsePortLines_MinSix(Tail(lines))

\* The loop over the lines after the header.
RECURSIVE ParsePortLines(_)
ParsePortLines(lines) ==
    IF lines = <<>> THEN <<>>
    ELSE LET parts == SplitWhitespace(Head(lines))
         IN  (IF Len(parts) >= 5 THEN <<PortRecord(parts)>> ELSE <<>>)
                \o ParsePortLines(Tail(lines))

\* The socket-listing parser: the records of the text of a socket listing.
ParseSockets(output) ==
    LET lines == Split(Strip(output), "\n")
    IN  IF Len(lines) <= 1 THEN <<>> ELSE ParsePortLines(Tail(lines))

PortLine(rec) ==
    "  - Port: " \o rec.localAddressPort \o " | Process: " \o rec.processName

ListeningPortsSection(output) ==
    LET header == "--- Listening Ports ---"
    IN  IF ~output.some THEN None
        ELSE LET lines == Split(Strip(output.val), "\n")
                 records == ParseSockets(output.val)
                 parsed_ports == [i \in 1..Len(records) |-> PortLine(records[i])]
             IN  IF Len(lines) <= 1
                 THEN Some(header \o "\nNo listening ports found.\n")
                 ELSE IF parsed_ports = <<>>
                      THEN Some(header \o "\nNo listening ports found.\n")
                      ELSE Some(header \o "\n" \o Join(parsed_ports, "\n") \o "\n")

CloudPositive ==
    GlyphCheck \o " Cloud metadata service is accessible. This machine is likely a cloud instance."
CloudNegative ==
    GlyphInfo \o " Cloud metadata service not found. This is likely not a standard cloud instance."

CloudMetadataSection(output) ==
    LET header == "--- Cloud Instance Check ---"
        report_body == IF output.some /\ output.val # ""
                       THEN CloudPositive
                       ELSE CloudNegative
    IN  Some(header \o "\n" \o report_body \o "\n")

-----------------------------------------------------------------------------
(* The collectors.                                                         *)

CallRecord(command, show_error, o, outs, r) ==
    [command |-> command, show_error |-> show_error, kind |-> o.kind,
     stdout |-> outs, ret |-> r.ret, raised |-> r.raised, printed |-> r.printed,
     child |-> r.child]

\* The section the collector of a command makes of the result of its call.
SectionOf(command, output) ==
    CASE command[1] = "who" -> ActiveUsersSection(output)
      [] command[1] = "last" -> LastLoginsSection(output)
      [] command[1] = "ss" -> ListeningPortsSection(output)
      [] OTHER -> CloudMetadataSection(output)

\* What a collector does around its section formatting: print its status
\* line, call run_command once, and either hand its section to main or let
\* the exception run_command raised end main.  When the status line cannot be
\* printed, the exception of print() ends main before the call.  The reader
\* of standard output may go away while the child runs and between the
\* prints of run_command.
Collect(info, command, show_error, next) ==
    /\ IF PrintRaises(sys_stdout, TRUE) # "none"
       THEN /\ pc' = "crashed"
            /\ UNCHANGED <<calls, children, console, sys_stdout, report_parts>>
       ELSE \E outs \in StdoutCourses(sys_stdout) :
            LET r == RunCommand(command, show_error, host[command[1]], outs)
            IN  /\ sys_stdout' = outs[2]
                /\ console' = console \o <<info>> \o r.printed
                /\ calls' = Append(calls,
                        CallRecord(command, show_error, host[command[1]], outs, r))
                /\ children' = IF r.child = "running"
                               THEN children \cup {command[1]} ELSE children
                /\ IF r.raised # "none"
                   THEN pc' = "crashed" /\ UNCHANGED report_parts
                   ELSE /\ pc' = next
                        /\ report_parts' = Append(report_parts, SectionOf(command, r.ret))
    /\ UNCHANGED <<host, now, timestamp, full_report, filename, files, attempts,
                   reads, run, history>>

GetActiveUsers ==
    /\ pc = "users"
    /\ Collect(GlyphInfo \o "  Checking for active users...", <<"who">>, TRUE,
               "logins")

GetLastLogins ==
    /\ pc = "logins"
    /\ Collect(GlyphInfo \o "  Retrieving last 10 logins...",
               <<"last", "-n", "10">>, TRUE, "ports")

GetListeningPorts ==
    /\ pc = "ports"
    /\ Collect(GlyphInfo \o "  Scanning for listening ports (ss -tulpn)...",
               <<"ss", "-tulpn">>, TRUE, "cloud")

CheckCloudMetadata ==
    /\ pc = "cloud"
    /\ Collect(GlyphInfo \o "  Checking for cloud metadata service...",
               <<"curl", "-s", "--connect-timeout", "1",
                 "http://169.254.169.254/latest/meta-data/">>,
               FALSE, "assemble")

-----------------------------------------------------------------------------
(* main                                                                    *)

\* [part for part in report_parts if part is not None]
RECURSIVE ValidParts(_)
ValidParts(parts) ==
    IF parts = <<>> THEN <<>>
    ELSE (IF Head(parts).some THEN <<Head(parts).val>> ELSE <<>>)
            \o ValidParts(Tail(parts))

ReportHeader(ts) == "System Security Audit Report\nGenerated on: " \o ts \o "\n"

ReportBody(parts) == Join(ValidParts(parts), "\n")

FullReport(ts, parts) ==
    ReportHeader(ts) \o "\n" \o Repeat("-", 40) \o "\n\n" \o ReportBody(parts)

HeaderTimestamp(t) == Strftime(t, "-", " ", ":")

\* A file name that stops at the minute.
FileName_Minutes(t) ==
    "security_report_" \o SubSeq(Strftime(t, "-", "_", "-"), 1, 16) \o ".txt"

FileName(t) == "security_report_" \o Strftime(t, "-", "_", "-") \o ".txt"

\* The first statement of main prints a line that starts with a glyph.
Start ==
    /\ pc = "start"
    /\ IF PrintRaises(sys_stdout, TRUE) # "none"
       THEN pc' = "crashed" /\ UNCHANGED console
       ELSE /\ console' = Append(console, GlyphRocket \o " Starting System Audit...")
            /\ pc' = "users"
    /\ UNCHANGED <<host, calls, children, sys_stdout, report_parts, now, timestamp,
                   full_report, filename, files, attempts, reads, run, history>>

\* The reader of standard output goes away while main runs.
ReaderCloses ==
    /\ pc \notin {"done", "crashed"}
    /\ sys_stdout = "open"
    /\ sys_stdout' = "closed"
    /\ UNCHANGED <<pc, host, calls, children, console, report_parts, now,
                   timestamp, full_report, filename, files, attempts, reads,
                   run, history>>

\* Filtering the parts, the first clock read, and the report text.
Assemble ==
    /\ pc = "assemble"
    /\ \E d \in 0..MaxAdvance :
        /\ now' = now + d
        /\ timestamp' = HeaderTimestamp(now')
        /\ full_report' = FullReport(timestamp', report_parts)
        /\ reads' = Append(reads, now')
    /\ pc' = "name"
    /\ UNCHANGED <<host, calls, children, console, sys_stdout, report_parts,
                   filename, files, attempts, run, history>>

\* The second clock read and the file name.
NameFile ==
    /\ pc = "name"
    /\ \E d \in 0..MaxAdvance :
        /\ now' = now + d
        /\ filename' = FileName(now')
        /\ reads' = Append(reads, now')
    /\ pc' = "write"
    /\ UNCHANGED <<host, calls, children, console, sys_stdout, report_parts,
                   timestamp, full_report, files, attempts, run, history>>

\* str(n) of a natural number
RECURSIVE Decimal(_)
Decimal(n) == IF n < 10 THEN Digit(n) ELSE Decimal(n \div 10) \o Digit(n % 10)

\* os.strerror for the error numbers of the modelled file systems.
Strerror(errno) ==
    CASE errno = 2 -> "No such file or directory"
      [] errno = 13 -> "Permission denied"
      [] errno = 21 -> "Is a directory"
      [] errno = 27 -> "File too large"
      [] errno = 28 -> "No space left on device"
      [] errno = 30 -> "Read-only file system"

\* A place the report is delivered to: the encoding files are opened with,
\* the error open() raises (0 when it succeeds), the error a write raises
\* when the place runs out of room (0 when it never does), and the room, the
\* number of characters a file takes before that error.
Disk(encoding, open_errno, write_errno, room) ==
    [encoding |-> encoding, open_errno |-> open_errno,
     write_errno |-> write_errno, room |-> room]

\* The places of the modelled runs: a sound one under either encoding; the
\* working directory gone, not writable, read-only, or a directory under the
\* name of the report; a file-size limit or a full device after 0, 50 or 100
\* characters.  The report starts with 106 characters of one byte each, so
\* up to that length characters and bytes are the same count.
Disks ==
    {Disk(e, 0, 0, 0) : e \in {"utf-8", "ascii"}}
    \cup {Disk("utf-8", n, 0, 0) : n \in {2, 13, 21, 30}}
    \cup {Disk("utf-8", 0, n, r) : n \in {27, 28}, r \in {0, 50, 100}}

\* How open(filename, 'w') and f.write(full_report) end on a disk: open
\* raises its OSError; or the encoding cannot carry the glyph of the cloud
\* section, which every report holds, and the write raises
\* UnicodeEncodeError before anything reaches the file; or the write (or the
\* close that flushes it) raises its OSError after the characters that fit
\* have reached the file; or the text is written.
DeliveryOutcome(disk, text) ==
    CASE disk.open_errno # 0 ->
            [kind |-> "open fails", errno |-> disk.open_errno, kept |-> 0]
      [] disk.encoding = "ascii" ->
            [kind |-> "encode fails", errno |-> 0, kept |-> 0]
      [] disk.write_errno # 0 /\ disk.room < Len(text) ->
            [kind |-> "write fails", errno |-> disk.write_errno, kept |-> disk.room]
      [] OTHER ->
            [kind |-> "written", errno |-> 0, kept |-> Len(text)]

\* str(e) of the OSError the delivery step catches: number and message of
\* the error, and the file name when open() raised it.
IOErrorText(w, name) ==
    "[Errno " \o Decimal(w.errno) \o "] " \o Strerror(w.errno)
        \o (IF w.kind = "open fails" THEN ": '" \o name \o "'" ELSE "")

\* The directory after open(name, 'w') and f.write(text) ended as w says:
\* opening truncates or creates the file, which then holds what was written
\* before the failure, if any.
FilesAfter(fs, name, text, w) ==
    IF w.kind = "open fails" THEN fs
    ELSE [n \in DOMAIN fs \cup {name} |->
            IF n = name THEN Before(text, w.kept + 1) ELSE fs[n]]

\* Where main is after the delivery step.  UnicodeEncodeError is not an
\* IOError: it leaves main.  An OSError of open or write is caught, and the
\* handler prints the critical error; a success line that cannot be printed
\* raises inside the try, a BrokenPipeError to the same handler and a
\* UnicodeEncodeError out of main; an exception of the handler's own print
\* leaves main.
AfterDelivery(w, out) ==
    IF w.kind = "encode fails" \/ PrintRaises(out, TRUE) # "none" THEN "crashed"
    ELSE "done"

\* The lines the delivery step prints.
DeliveryLines(w, name, out) ==
    IF AfterDelivery(w, out) = "crashed" THEN <<>>
    ELSE IF w.kind = "written"
    THEN <<GlyphCheck \o " Report generated successfully: " \o name>>
    ELSE <<GlyphCross \o " Critical Error: Could not write report to file: "
            \o IOErrorText(w, name)>>

WriteReport ==
    /\ pc = "write"
    /\ \E disk \in Disks :
        LET w == DeliveryOutcome(disk, full_report)
        IN  /\ files' = FilesAfter(files, filename, full_report, w)
            /\ console' = console \o DeliveryLines(w, filename, sys_stdout)
            /\ pc' = AfterDelivery(w, sys_stdout)
            /\ history' = Append(history,
                    [run |-> run, parts |-> report_parts, timestamp |-> timestamp,
                     filename |-> filename, text |-> full_report, reads |-> reads,
                     outcome |-> w, stdout |-> sys_stdout])
    /\ attempts' = attempts + 1
    /\ UNCHANGED <<host, calls, children, sys_stdout, report_parts, now, timestamp,
                   full_report, filename, reads, run>>

\* The operator starts the script again on the same host, with a standard
\* output of its own.
RunAgain ==
    /\ pc \in {"done", "crashed"}
    /\ run + 1 \in RunIds
    /\ run' = run + 1
    /\ pc' = "start"
    /\ calls' = <<>>
    /\ console' = <<>>
    /\ sys_stdout' \in {"open", "ascii"}
    /\ report_parts' = <<>>
    /\ timestamp' = ""
    /\ full_report' = ""
    /\ filename' = ""
    /\ attempts' = 0
    /\ reads' = <<>>
    /\ UNCHANGED <<host, children, now, files, history>>

-----------------------------------------------------------------------------
(* Specifications.                                                         *)

InitWith(hosts, at, outs, clocks) ==
    /\ pc = at
    /\ host \in hosts
    /\ calls = <<>>
    /\ children = {}
    /\ console = <<>>
    /\ sys_stdout \in outs
    /\ report_parts = <<>>
    /\ now \in clocks
    /\ timestamp = ""
    /\ full_report = ""
    /\ filename = ""
    /\ files = [n \in {} |-> ""]
    /\ attempts = 0
    /\ reads = <<>>
    /\ run = 1
    /\ history = <<>>

\* One invocation of the script on any of the modelled hosts.
Init == InitWith(Hosts, "start", {"open", "ascii"}, {ClockStart})

Next ==
    \/ Start
    \/ ReaderCloses
    \/ GetActiveUsers
    \/ GetLastLogins
    \/ GetListeningPorts
    \/ CheckCloudMetadata
    \/ Assemble
    \/ NameFile
    \/ WriteReport

Spec == Init /\ [][Next]_vars

\* Two invocations on one host, so that both runs see the same probe outputs.
TwiceHosts ==
    {h \in Hosts :
        /\ h["who"] \in {Outcome("FileNotFoundError", "", ""),
                         Outcome("PermissionError", "", ""),
                         Completed(WhoListing)}
        /\ h["last"] \in {Outcome("TimeoutExpired", "", ""), Completed("")}
        /\ h["ss"] \in {Outcome("CalledProcessError", "", "permission denied\n"),
                        Completed(HeaderLine \o "\n")}
        /\ h["curl"] \in {Outcome("TimeoutExpired", "", ""),
                          Completed("ami-id\nhostname\n")}}

\* The first of them starts before noon or two seconds before midnight.
InitTwice ==
    InitWith(TwiceHosts, "start", {"open", "ascii"}, {ClockStart, LateClockStart})

NextTwice == Next \/ RunAgain

TwiceSpec == InitTwice /\ [][NextTwice]_vars

-----------------------------------------------------------------------------
(* Socket listings for the parser.                                         *)

\* The fields a record line is cut from; the seventh is the process descriptor.
RecordFields(descriptor) ==
    <<"tcp", "LISTEN", "0", "128", "0.0.0.0:22", "0.0.0.0:*", descriptor,
      "ino:1", "sk:2">>

Descriptors == {"users:((\"sshd\",pid=1,fd=3))", "-", "\"nginx", "a\"\"b"}

Separators == {" ", " \t\f "}

\* Record lines of 0..MaxFields fields.
RecordLines ==
    {Join(SubSeq(RecordFields(d), 1, k), sep) :
        k \in 0..MaxFields, d \in Descriptors, sep \in Separators}

ListingHeader == "Netid " \o HeaderLine

\* Listings of the header and n record lines.
RECURSIVE ListingsOf(_)
ListingsOf(n) ==
    IF n = 0 THEN {ListingHeader}
    ELSE {t \o "\n" \o l : t \in ListingsOf(n - 1), l \in RecordLines}

\* The example of the specification: no netid column, no final newline.
ExampleListing == HeaderLine \o "\n" \o SshdLine

\* What ss may print: the listings, each ended by a newline; the listings of
\* one record after an empty line, without their header, or with lines ended
\* by a carriage return; no output at all; and the example with and without
\* the netid column.
SocketListings ==
    {t \o "\n" : t \in UNION {ListingsOf(n) : n \in 0..MaxRecordLines}}
        \cup {"\n" \o t \o "\n" : t \in ListingsOf(1)}
        \cup {l \o "\n" \o l : l \in RecordLines}
        \cup {ListingHeader \o e \o l \o e : l \in RecordLines, e \in {"\r", "\r\n"}}
        \cup {"", ExampleListing, ListingHeader \o "\ntcp " \o SshdLine}

ParseHosts ==
    {[c \in Commands |->
        IF c = "ss" THEN Completed(t) ELSE Outcome("FileNotFoundError", "", "")] :
        t \in SocketListings}

\* The listening-ports collector on its own, on any of the socket listings.
ParseInit == InitWith(ParseHosts, "ports", StdoutStates, {ClockStart})

ParseNext == GetListeningPorts

ParseSpec == ParseInit /\ [][ParseNext]_vars

-----------------------------------------------------------------------------
(* Vocabulary of the properties.                                           *)

\* The command names of the calls made so far, in order.
CalledCommands == [i \in DOMAIN calls |-> calls[i].command[1]]

CollectorOrder == <<"who", "last", "ss", "curl">>

SectionHeader(c) ==
    CASE c = "who" -> "--- Active Users ---"
      [] c = "last" -> "--- Last 10 Logins ---"
      [] c = "ss" -> "--- Listening Ports ---"
      [] OTHER -> "--- Cloud Instance Check ---"

NoneFoundMessage(c) ==
    CASE c = "who" -> "No active users found."
      [] c = "last" -> "No login history found."
      [] OTHER -> "No listening ports found."

NoneFoundSection(c) == Some(SectionHeader(c) \o "\n" \o NoneFoundMessage(c) \o "\n")

\* The k-th smallest element of a set of numbers.
KthOf(S, k) == CHOOSE x \in S : Cardinality({y \in S : y < x}) = k - 1

\* The reference parser, stated over character positions.
RefNewlines(t) == {i \in 1..Len(t) : CharAt(t, i) = "\n"}

RefLineCount(t) == Cardinality(RefNewlines(t)) + 1

\* Line k of t: from after the (k-1)-th newline to before the k-th.
RefLine(t, k) ==
    LET stops == RefNewlines(t) \cup {0, Len(t) + 1}
        from == KthOf(stops, k) + 1
        to == KthOf(stops, k + 1) - 1
    IN  IF from > to THEN "" ELSE SubSeq(t, from, to)

IsSpaceAt(l, i) == CharAt(l, i) \in Whitespace

\* Positions where a field of line l starts.
RefFieldStarts(l) ==
    {i \in 1..Len(l) : ~IsSpaceAt(l, i) /\ (i = 1 \/ IsSpaceAt(l, i - 1))}

RefFieldCount(l) == Cardinality(RefFieldStarts(l))

\* Field k of line l: from its start to before the next whitespace.
RefField(l, k) ==
    LET from == KthOf(RefFieldStarts(l), k)
        ends == {j \in from..Len(l) : j = Len(l) \/ IsSpaceAt(l, j + 1)}
        to == CHOOSE j \in ends : \A e \in ends : j <= e
    IN  SubSeq(l, from, to)

\* The text between the first and the second double-quote of a descriptor (to
\* its end when it has one double-quote only); N/A when it has none.
RefProcessName(d) ==
    LET quotes == {i \in 1..Len(d) : CharAt(d, i) = "\""}
    IN  IF quotes = {} THEN "N/A"
        ELSE LET first == KthOf(quotes, 1)
                 second == IF Cardinality(quotes) >= 2 THEN KthOf(quotes, 2)
                           ELSE Len(d) + 1
             IN  IF first + 1 > second - 1 THEN ""
                 ELSE SubSeq(d, first + 1, second - 1)

RefRecord(l) ==
    [localAddressPort |-> RefField(l, 5),
     processName |-> IF RefFieldCount(l) >= 7 THEN RefProcessName(RefField(l, 7))
                     ELSE "N/A"]

RefParse(t) ==
    LET rest == [k \in 1..(RefLineCount(t) - 1) |-> RefLine(t, k + 1)]
        kept == SelectSeq(rest, LAMBDA l : RefFieldCount(l) >= 5)
    IN  [k \in 1..Len(kept) |-> RefRecord(kept[k])]

\* The call of the socket-listing command, once it has been made.
SsCalls == {i \in DOMAIN calls : calls[i].command[1] = "ss"}

\* Lines of the console that are diagnostics of run_command.
IsDiagnostic(l) ==
    \/ Len(l) >= 8 /\ SubSeq(l, 1, 8) = GlyphCross \o " Error:"
    \/ Len(l) >= 17 /\ SubSeq(l, 1, 17) = GlyphCross \o " Error executing"
    \/ Len(l) >= 11 /\ SubSeq(l, 1, 11) = "   Stderr: "

RECURSIVE PrintedByCalls(_)
PrintedByCalls(cs) ==
    IF cs = <<>> THEN <<>> ELSE Head(cs).printed \o PrintedByCalls(Tail(cs))

-----------------------------------------------------------------------------
(* Properties of run_command.                                              *)

\* C1: no exception escapes run_command, whatever the outcome of launching
\* or running the child: every call made has returned a value, and no
\* collector has ended main.
C1_RunCommandNeverRaises ==
    /\ \A i \in DOMAIN calls : calls[i].raised = "none"
    /\ pc # "crashed"

\* The diagnostic run_command prints for a call when diagnostics are on.
DiagnosticOf(c) ==
    DiagnosticLines(c.command, SubprocessRun(c.command, host[c.command[1]]))

\* The call could print what it had to print: it had no diagnostic to print,
\* or standard output was open at each of its lines.
CouldPrint(c) ==
    \/ c.kind \notin HandledKinds
    \/ ~c.show_error
    \/ \A k \in 1..Len(DiagnosticOf(c)) : c.stdout[k] = "open"

\* The part of C1 the code keeps: a call whose child is missing, exits with a
\* non-zero status, times out or succeeds, and which could print, does
\* return, None in the first three cases and the stripped output in the last.
C1_HandledOutcomesReturn ==
    \A i \in DOMAIN calls :
        (calls[i].kind \in HandledKinds \cup {"Completed"} /\ CouldPrint(calls[i])) =>
            /\ calls[i].raised = "none"
            /\ calls[i].ret.some <=> calls[i].kind = "Completed"

\* C7: a call whose command exceeds the timeout returns the failure value
\* and leaves no child running.
C7_TimeoutLeavesNoChild ==
    \A i \in DOMAIN calls :
        calls[i].kind = "TimeoutExpired" =>
            /\ calls[i].raised = "none"
            /\ calls[i].ret = None
            /\ calls[i].child # "running"
            /\ calls[i].command[1] \notin children

\* The part of C7 the code keeps: when the call of a command that exceeded
\* the timeout ends, by returning or by raising, its child has been killed
\* and waited for; and the call returns the failure value, after reporting
\* the timeout when diagnostics are on, whenever it could print.
C7_TimeoutChildReaped ==
    \A i \in DOMAIN calls :
        calls[i].kind = "TimeoutExpired" =>
            /\ calls[i].child = "reaped"
            /\ children = {}
            /\ CouldPrint(calls[i]) =>
                /\ calls[i].raised = "none"
                /\ calls[i].ret = None
                /\ calls[i].printed =
                    IF calls[i].show_error
                    THEN <<GlyphCross \o " Error: Command timed out: '"
                            \o Join(calls[i].command, " ") \o "'">>
                    ELSE <<>>

\* C8: for a call that ends as not found, non-zero exit or timeout, the call
\* with diagnostics on prints at least one line, the call with diagnostics
\* off prints none, and both return the same value.
C8_SuppressionOnlyChangesOutput ==
    \A i \in DOMAIN calls :
        calls[i].kind \in HandledKinds =>
            LET c == calls[i]
                on == RunCommand(c.command, TRUE, host[c.command[1]], c.stdout)
                off == RunCommand(c.command, FALSE, host[c.command[1]], c.stdout)
            IN  /\ on.printed # <<>>
                /\ off.printed = <<>>
                /\ on.raised = "none" /\ off.raised = "none"
                /\ on.ret = off.ret

\* The part of C8 the code keeps: whatever the state of standard output, the
\* call with diagnostics off prints nothing and returns None; the call with
\* diagnostics on prints its whole diagnostic and returns None when standard
\* output is open at each line, and otherwise prints the lines before the
\* one that cannot be printed and raises; and the console holds, in order,
\* exactly the diagnostic lines the calls printed.
C8_WhenDiagnosticPrints ==
    /\ \A i \in DOMAIN calls :
        calls[i].kind \in HandledKinds =>
            LET c == calls[i]
                on == RunCommand(c.command, TRUE, host[c.command[1]], c.stdout)
                off == RunCommand(c.command, FALSE, host[c.command[1]], c.stdout)
                whole == DiagnosticOf(c)
            IN  /\ off.printed = <<>> /\ off.raised = "none" /\ off.ret = None
                /\ whole # <<>>
                /\ (\A k \in 1..Len(whole) : c.stdout[k] = "open") =>
                    /\ on.printed = whole
                    /\ on.raised = "none"
                    /\ on.ret = off.ret
                /\ (\E k \in 1..Len(whole) : c.stdout[k] # "open") =>
                    /\ on.raised # "none"
                    /\ Len(on.printed) < Len(whole)
                    /\ on.printed = SubSeq(whole, 1, Len(on.printed))
                /\ c.ret = None
                /\ c.printed = IF c.show_error THEN on.printed ELSE off.printed
                /\ c.raised = IF c.show_error THEN on.raised ELSE off.raised
    /\ SelectSeq(console, IsDiagnostic) = PrintedByCalls(calls)

\* A call has printed the first line of its diagnostic and raised at the
\* second.
PartialDiagnosticPrinted ==
    \E i \in DOMAIN calls :
        /\ calls[i].raised = "BrokenPipeError"
        /\ Len(calls[i].printed) = 1

-----------------------------------------------------------------------------
(* Properties of the collectors.                                           *)

\* Whether a successful call found nothing: empty output, and for the socket
\* listing no record.
FoundNothing(c) ==
    IF c.command[1] = "ss" THEN RefParse(c.ret.val) = <<>> ELSE c.ret.val = ""

\* C2: for the active-users, recent-logins and listening-ports collectors, a
\* failed command gives an absent section and a successful command that
\* found nothing gives the collector's own none-found section.
C2_FailureAbsentEmptyNoneFound ==
    \A i \in DOMAIN calls :
        LET c == calls[i]
        IN  c.command[1] \in {"who", "last", "ss"} =>
                /\ c.kind # "Completed" =>
                    /\ i <= Len(report_parts)
                    /\ report_parts[i] = None
                /\ (c.kind = "Completed" /\ FoundNothing(c)) =>
                    /\ i <= Len(report_parts)
                    /\ report_parts[i] = NoneFoundSection(c.command[1])

\* The part of C2 the code keeps: the same, for the calls that returned.
C2_WhenRunCommandReturns ==
    \A i \in DOMAIN calls :
        LET c == calls[i]
        IN  (c.command[1] \in {"who", "last", "ss"} /\ c.raised = "none") =>
                /\ i <= Len(report_parts)
                /\ c.kind # "Completed" => report_parts[i] = None
                /\ (c.kind = "Completed" /\ FoundNothing(c)) =>
                    report_parts[i] = NoneFoundSection(c.command[1])
                /\ (c.kind = "Completed" /\ ~FoundNothing(c)) =>
                    /\ report_parts[i].some
                    /\ report_parts[i] # NoneFoundSection(c.command[1])

\* C4: the cloud-metadata collector always returns a present section: the
\* positive finding when the command succeeded with non-empty output, the
\* negative finding otherwise.
C4_CloudSectionAlwaysPresent ==
    \A i \in DOMAIN calls :
        LET c == calls[i]
        IN  c.command[1] = "curl" =>
                /\ i <= Len(report_parts)
                /\ report_parts[i] =
                    Some(SectionHeader("curl") \o "\n"
                         \o (IF c.kind = "Completed" /\ c.ret.val # ""
                             THEN CloudPositive ELSE CloudNegative)
                         \o "\n")

\* The part of C4 the code keeps: the same, for the calls that returned.
C4_WhenRunCommandReturns ==
    \A i \in DOMAIN calls :
        LET c == calls[i]
        IN  (c.command[1] = "curl" /\ c.raised = "none") =>
                /\ i <= Len(report_parts)
                /\ report_parts[i] =
                    Some(SectionHeader("curl") \o "\n"
                         \o (IF c.kind = "Completed" /\ c.ret.val # ""
                             THEN CloudPositive ELSE CloudNegative)
                         \o "\n")

-----------------------------------------------------------------------------
(* Properties of the socket-listing parser.                                *)

\* C5 as stated: on the example listing the parser returns the one record
\* 0.0.0.0:22 / sshd, which the collector renders.
C5_ExampleYieldsSshd ==
    \A i \in SsCalls :
        calls[i].ret = Some(ExampleListing) =>
            /\ ParseSockets(calls[i].ret.val) =
                <<[localAddressPort |-> "0.0.0.0:22", processName |-> "sshd"]>>
            /\ report_parts[i] =
                Some("--- Listening Ports ---\n  - Port: 0.0.0.0:22 | Process: sshd\n")

\* C5 as amended: on the example listing, which has no netid column, the
\* fifth field is the peer address and there is no seventh field, so the one
\* record is 0.0.0.0:* / N/A; with the netid column in front of the same
\* lines the record is 0.0.0.0:22 / sshd.
C5_ExampleYieldsPeerAddress ==
    \A i \in SsCalls :
        /\ calls[i].ret = Some(ExampleListing) =>
            /\ ParseSockets(calls[i].ret.val) =
                <<[localAddressPort |-> "0.0.0.0:*", processName |-> "N/A"]>>
            /\ report_parts[i] =
                Some("--- Listening Ports ---\n  - Port: 0.0.0.0:* | Process: N/A\n")
        /\ calls[i].ret = Some(ListingHeader \o "\ntcp " \o SshdLine) =>
            /\ ParseSockets(calls[i].ret.val) =
                <<[localAddressPort |-> "0.0.0.0:22", processName |-> "sshd"]>>
            /\ report_parts[i] =
                Some("--- Listening Ports ---\n  - Port: 0.0.0.0:22 | Process: sshd\n")

\* The collector has run on the example listing.
C5_Witness ==
    \E i \in SsCalls :
        /\ calls[i].ret = Some(ExampleListing)
        /\ i <= Len(report_parts)

\* C6: on every text the parser receives, its records are those of the
\* reference: the lines after the first, in order, that have at least 5
\* fields, each giving its 5th field and the name quoted in its 7th field
\* (N/A without a 7th field or a double-quote); and the collector renders
\* exactly these records, or its none-found section when there is none.
C6_ParserMatchesReference ==
    \A i \in SsCalls :
        calls[i].ret.some =>
            LET text == calls[i].ret.val
                ref == RefParse(text)
            IN  /\ ParseSockets(text) = ref
                /\ i <= Len(report_parts)
                /\ report_parts[i] =
                    IF ref = <<>> THEN NoneFoundSection("ss")
                    ELSE Some(SectionHeader("ss") \o "\n"
                              \o Join([k \in 1..Len(ref) |-> PortLine(ref[k])], "\n")
                              \o "\n")

\* The collector has parsed a listing with a named process, a record of
\* fewer than 7 fields and a descriptor without a closing quote.
C6_Witness ==
    \E i \in SsCalls :
        /\ calls[i].ret.some
        /\ i <= Len(report_parts)
        /\ LET ref == RefParse(calls[i].ret.val)
           IN  /\ Len(ref) = 2
               /\ ref[1].processName = "nginx"
               /\ ref[2].processName = "N/A"
               /\ RefLineCount(calls[i].ret.val) = 3

\* The parser has skipped a line of fewer than 5 fields between the header
\* and a record.
C6_WitnessShortLine ==
    \E i \in SsCalls :
        /\ calls[i].ret.some
        /\ i <= Len(report_parts)
        /\ Len(RefParse(calls[i].ret.val)) = 1
        /\ RefLineCount(calls[i].ret.val) = 3
        /\ RefFieldCount(RefLine(calls[i].ret.val, 2)) = 4

-----------------------------------------------------------------------------
(* Properties of main.                                                     *)

\* main is past its collectors.
PastCollectors == pc \in {"assemble", "name", "write", "done", "crashed"}

\* C3: in every run the four collectors run once each, in the order active
\* users, last logins, listening ports, cloud metadata, each with one call
\* of run_command, whatever fails; and the report body is the present
\* sections joined in that order.
C3_AllCollectorsRunInOrder ==
    /\ Len(calls) <= 4
    /\ CalledCommands = SubSeq(CollectorOrder, 1, Len(calls))
    /\ PastCollectors =>
        /\ CalledCommands = CollectorOrder
        /\ Len(report_parts) = 4
    /\ pc \in {"name", "write", "done"} =>
        full_report =
            ReportHeader(timestamp) \o "\n" \o Repeat("-", 40) \o "\n\n"
                \o Join(ValidParts(report_parts), "\n")

\* The part of C3 the code keeps: the same, for the runs that no exception
\* has ended.
C3_WhenRunCommandReturns ==
    /\ Len(calls) <= 4
    /\ CalledCommands = SubSeq(CollectorOrder, 1, Len(calls))
    /\ (PastCollectors /\ pc # "crashed") =>
        /\ CalledCommands = CollectorOrder
        /\ Len(report_parts) = 4
        /\ \A i \in 1..3 : report_parts[i].some <=> calls[i].kind = "Completed"
    /\ pc \in {"name", "write", "done"} =>
        full_report =
            ReportHeader(timestamp) \o "\n" \o Repeat("-", 40) \o "\n\n"
                \o Join(ValidParts(report_parts), "\n")

\* The delivery records of the current run.
Deliveries == {k \in DOMAIN history : history[k].run = run}

\* C10: a run opens the report file at most once; when the write fails, the
\* critical error is printed, nothing is retried and main ends normally;
\* when it succeeds, the success line names the file, which holds the report.
C10_OneWriteAttempt ==
    /\ attempts <= 1
    /\ Cardinality(Deliveries) = attempts
    /\ \A k \in Deliveries :
        LET h == history[k]
        IN  /\ pc = "done"
            /\ h.filename = filename /\ h.text = full_report
            /\ h.outcome.kind # "written" =>
                /\ console # <<>>
                /\ SubSeq(console[Len(console)], 1, 16) = GlyphCross \o " Critical Error"
                /\ h.filename \in DOMAIN files => files[h.filename] # h.text
            /\ h.outcome.kind = "written" =>
                /\ console # <<>>
                /\ console[Len(console)] =
                    GlyphCheck \o " Report generated successfully: " \o filename
                /\ h.filename \in DOMAIN files
                /\ files[h.filename] = h.text

\* The part of C10 the code keeps: one attempt at most, never a retry; when
\* standard output is open and open() or write() raises an OSError, the
\* critical error with the text of that error is printed and main ends
\* normally, the file, if it exists, holding a proper prefix of the report;
\* when standard output is open and the write succeeds, the success line
\* names the file, which holds the report, and main ends normally.
C10_WhenErrorIsCaught ==
    /\ attempts <= 1
    /\ Cardinality(Deliveries) = attempts
    /\ \A k \in Deliveries :
        LET h == history[k]
        IN  /\ pc \in {"done", "crashed"}
            /\ h.filename = filename /\ h.text = full_report
            /\ pc = "crashed" <=>
                (h.outcome.kind = "encode fails" \/ h.stdout # "open")
            /\ h.outcome.kind # "written" =>
                /\ h.filename \in DOMAIN files =>
                    /\ files[h.filename] # h.text
                    /\ files[h.filename] = SubSeq(h.text, 1, Len(files[h.filename]))
                /\ pc = "done" =>
                    console[Len(console)] =
                        GlyphCross \o " Critical Error: Could not write report to file: "
                            \o IOErrorText(h.outcome, filename)
            /\ h.outcome.kind = "written" =>
                /\ h.filename \in DOMAIN files
                /\ files[h.filename] = h.text
                /\ pc = "done" =>
                    console[Len(console)] =
                        GlyphCheck \o " Report generated successfully: " \o filename

\* C9 as stated: two runs on the same probe outputs that compute the same
\* file name write the same text.
C9_SameNameSameText ==
    \A i, j \in DOMAIN history :
        (history[i].parts = history[j].parts
            /\ history[i].filename = history[j].filename) =>
                history[i].text = history[j].text

\* A run whose two clock reads fell in the same second.
ReadsInOneSecond(h) == Len(h.reads) = 2 /\ h.reads[1] = h.reads[2]

\* C9 as amended: two runs on the same probe outputs that compute the same
\* file name write the same text, provided that in each run the header clock
\* read and the file-name clock read fell in the same second.
C9_SameSecondSameText ==
    \A i, j \in DOMAIN history :
        (history[i].parts = history[j].parts
            /\ history[i].filename = history[j].filename
            /\ ReadsInOneSecond(history[i])
            /\ ReadsInOneSecond(history[j])) =>
                history[i].text = history[j].text

\* Two runs have delivered the same text under the same name within one
\* second.
C9_Witness ==
    /\ Len(history) = 2
    /\ history[1].run = 1 /\ history[2].run = 2
    /\ history[1].parts = history[2].parts
    /\ history[1].filename = history[2].filename
    /\ ReadsInOneSecond(history[1])
    /\ ReadsInOneSecond(history[2])
    /\ history[1].text = history[2].text
    /\ history[2].outcome.kind = "written"

====
